---- MODULE Spec2Model ----
(***************************************************************************)
(* Rock-paper-scissors client (src/src/App.tsx): the App session           *)
(* controller, the LoginPage form, the GamePage view state and the async   *)
(* activations of GamePage.loadData and GamePage.handlePlay.               *)
(*                                                                         *)
(* One action is one browser task: a UI event handler together with the    *)
(* re-render it causes, or the arrival of a timer / network completion     *)
(* together with every promise continuation it unblocks (microtasks run to *)
(* completion before the next task).                                       *)
(***************************************************************************)
EXTENDS Integers, Sequences, FiniteSets, Bags, TLC

VARIABLES
    localStorage,   \* browser key-value store: a function from the keys present
    playerName,     \* App state: string | null
    name,           \* LoginPage state: the text of the input
    loginError,     \* LoginPage state `error`: the validation message ('' = none)
    playerId,       \* GamePage state (null while no GamePage is mounted)
    isPlaying,      \* GamePage state
    lastResult,     \* GamePage state: {playerChoice, aiChoice, result} | null
    history,        \* GamePage state: GameRecord[]
    stats,          \* GamePage state: PlayerStats | null
    showAnimation,  \* GamePage state
    error,          \* GamePage state: string | null
    isLoading,      \* GamePage state
    tasks,          \* bag of the async activations (loadData / handlePlay) not yet finished
    uuids,          \* how many identifiers crypto.randomUUID has handed out
    event           \* what the browser task that ran last was

vars == <<localStorage, playerName, name, loginError, playerId, isPlaying,
          lastResult, history, stats, showAnimation, error, isLoading,
          tasks, uuids, event>>

view == <<playerId, isPlaying, lastResult, history, stats, showAnimation,
          error, isLoading>>

-----------------------------------------------------------------------------
(* Bounds of the model. *)

\* async activations alive at once, those of unmounted GamePages included
MaxTasks == 2
\* activations the player leaves behind by logging out
MaxStale == 1
\* largest `total` the stats service answers with in StatsSpec
MaxTotal == 2
\* largest `total` the stats service answers with in RateSpec
MaxGames == 40

-----------------------------------------------------------------------------
(* Nullable values: null is the empty set, a value v is {v}. *)

Null == {}
Some(v) == {v}
The(o) == CHOOSE v \in o : TRUE

(* Strings are sequences of one-character strings. *)
Rep(n, c) == [i \in 1..n |-> c]

RECURSIVE TrimStart(_)
TrimStart(s) ==
    IF s # <<>> /\ Head(s) = " " THEN TrimStart(Tail(s)) ELSE s

RECURSIVE TrimEnd(_)
TrimEnd(s) ==
    IF s # <<>> /\ s[Len(s)] = " " THEN TrimEnd(SubSeq(s, 1, Len(s) - 1)) ELSE s

\* String.prototype.trim
Trim(s) == TrimEnd(TrimStart(s))

MinNameLength == 2
MaxNameLength == 20

\* What the player can type into the login input.
RawNames ==
    { <<" ", "a", " ">>,
      <<"a", "a">>, <<" ", "a", "a", " ">>,
      <<" ">> \o Rep(MaxNameLength, "b") \o <<" ">>,
      Rep(MaxNameLength + 1, "b") }

-----------------------------------------------------------------------------
(* types.ts *)

Choice == {"rock", "paper", "scissors"}
Result == {"win", "lose", "draw"}

\* Of a GameRecord the client only renders fields; the model keeps `result`.
GameRecord == [result : Result]

\* The service keeps wins + losses + draws = total.
PlayerStats ==
    { s \in [wins : 0..MaxTotal, losses : 0..MaxTotal,
             draws : 0..MaxTotal, total : 0..MaxTotal] :
        s.wins + s.losses + s.draws = s.total }

\* The fields of a PlayResponse that handlePlay reads.
PlayResponse == [playerChoice : Choice, aiChoice : Choice, result : Result]

(* How a promise settles. *)
Fulfilled(v) == [state |-> "fulfilled", value |-> v]
Rejected == [state |-> "rejected"]

(* api.ts is not part of the sources at hand: its three calls are taken    *)
(* from the specification.  Each returns the parsed JSON of a successful   *)
(* response and fails on a non-success status or a transport error;        *)
(* getHistory reads `games`, an empty list when the field is missing, and  *)
(* getStats reads `stats`.                                                 *)
Failures == { [status |-> "http-error"], [status |-> "network-error"] }
Replies(bodies) == { [status |-> "ok", body |-> b] : b \in bodies } \cup Failures

playGame(reply) ==
    IF reply.status = "ok" THEN Fulfilled(reply.body) ELSE Rejected
getHistory(reply) ==
    IF reply.status = "ok"
    THEN Fulfilled(IF "games" \in DOMAIN reply.body THEN reply.body.games ELSE <<>>)
    ELSE Rejected
getStats(reply) ==
    IF reply.status = "ok" THEN Fulfilled(reply.body.stats) ELSE Rejected

PlayReplies(plays) == Replies(plays)
HistoryReplies(histories) ==
    Replies({ [games |-> h] : h \in histories } \cup { [count |-> 0] })
StatsReplies(statses) == Replies({ [stats |-> x] : x \in statses })

(* The answers of the remote service drawn in Spec (GameSpec draws every   *)
(* play response and every stats value up to MaxTotal).  Of the 27 play    *)
(* responses: one that follows the rules of the game and one that does not.*)
SamplePlays ==
    { [playerChoice |-> "rock", aiChoice |-> "scissors", result |-> "win"],
      [playerChoice |-> "paper", aiChoice |-> "paper", result |-> "lose"] }
SampleHistories == { <<>>, <<[result |-> "win"]>> }
SampleStats ==
    { [wins |-> 0, losses |-> 0, draws |-> 0, total |-> 0],
      [wins |-> 3, losses |-> 1, draws |-> 1, total |-> 5] }

RESULT_LABELS ==
    [r \in Result |->
        CASE r = "win" -> "You Win!"
          [] r = "lose" -> "You Lose!"
          [] r = "draw" -> "Draw!"]

ConnectionFailed == "Connection failed. Please try again."
NameTooShort == "Name must be at least 2 characters"
NameTooLong == "Name must be 20 characters or less"

-----------------------------------------------------------------------------
(* localStorage *)

CurrentPlayerKey == <<"rps-current-player">>
PlayerIdKey(n) == <<"rps-player-id", n>>

getItem(ls, k) == IF k \in DOMAIN ls THEN Some(ls[k]) ELSE Null
setItem(ls, k, v) == [x \in DOMAIN ls \cup {k} |-> IF x = k THEN v ELSE ls[x]]
removeItem(ls, k) == [x \in DOMAIN ls \ {k} |-> ls[x]]

-----------------------------------------------------------------------------
(* The requests; a request in flight is the activation that awaits it. *)

HistoryLimit == 10

PlayRequest(task) ==
    [playerId |-> task.playerId, playerName |-> task.playerName,
     choice |-> task.choice]
HistoryRequest(task) == [playerId |-> task.playerId, limit |-> HistoryLimit]
StatsRequest(task) == [playerId |-> task.playerId]

\* `event` tells whether the browser task that ran last was an invocation of
\* handlePlay that returned at its guard.
Quiet == "run"
Ignored == "ignored"

-----------------------------------------------------------------------------
(* Async activations.  `live` tells whether the GamePage instance the      *)
(* activation belongs to is still mounted: React drops the state updates   *)
(* of an unmounted component.  `hist` and `stat` are the two requests of   *)
(* loadData's Promise.all; choice and playerName are what the closure of   *)
(* handlePlay holds until it has called playGame.                          *)

NewTask(kind, choice, id, n) ==
    [live |-> TRUE, kind |-> kind, pc |-> "start", choice |-> choice,
     playerId |-> id, playerName |-> n,
     hist |-> "none", stat |-> "none", histData |-> Null, statData |-> Null]

One(task) == SetToBag({task})
Tasks == BagToSet(tasks)

\* How many activations of the bag ts satisfy P.
CountWhere(ts, P(_)) ==
    BagCardinality([task \in { x \in BagToSet(ts) : P(x) } |-> ts[task]])

\* loadData, up to its await: both requests are issued, then it waits for both.
\* The choice and the name in handlePlay's closure are not read again.
LoadDataStart(task) ==
    [task EXCEPT !.pc = "awaitAll", !.hist = "pending", !.stat = "pending",
                 !.choice = Null, !.playerName = Null]

Finished(task) ==
    [task EXCEPT !.pc = "done", !.histData = Null, !.statData = Null,
                 !.choice = Null, !.playerName = Null]

\* A finished activation is forgotten once none of its requests is in flight.
Forgotten(task) ==
    task.pc = "done" /\ task.hist # "pending" /\ task.stat # "pending"
Replace(ts, old, new) ==
    IF Forgotten(new) THEN ts (-) One(old) ELSE (ts (-) One(old)) (+) One(new)

-----------------------------------------------------------------------------
(* GamePage view state as one record, and its write-back. *)

GP ==
    [playerId |-> playerId, isPlaying |-> isPlaying, lastResult |-> lastResult,
     history |-> history, stats |-> stats, showAnimation |-> showAnimation,
     error |-> error, isLoading |-> isLoading]

Commit(g) ==
    /\ playerId' = g.playerId
    /\ isPlaying' = g.isPlaying
    /\ lastResult' = g.lastResult
    /\ history' = g.history
    /\ stats' = g.stats
    /\ showAnimation' = g.showAnimation
    /\ error' = g.error
    /\ isLoading' = g.isLoading

\* The useState initial values of a GamePage whose identifier is id.
GamePageState(id) ==
    [playerId |-> id, isPlaying |-> FALSE, lastResult |-> Null,
     history |-> <<>>, stats |-> Null, showAnimation |-> FALSE,
     error |-> Null, isLoading |-> TRUE]

\* No GamePage is mounted.
NoGamePage == GamePageState(Null)

\* The playerId initializer: the identifier stored for the name, or a fresh one.
StoredId(ls, n) == getItem(ls, PlayerIdKey(n))
PlayerIdAlwaysNew(ls, n) == uuids + 1
PlayerIdOf(ls, n) ==
    IF StoredId(ls, n) = Null THEN uuids + 1 ELSE The(StoredId(ls, n))
StorageAfterId(ls, n) ==
    IF StoredId(ls, n) = Null
    THEN setItem(ls, PlayerIdKey(n), PlayerIdOf(ls, n))
    ELSE ls

\* A state update of an activation reaches the view only while its GamePage
\* is mounted.
SetStateAlways(task, g) == g
SetState(task, g) == IF task.live THEN g ELSE GP

(* handlePlay, piece by piece *)
NeverReentered == FALSE
Reentered == isPlaying
PlayStartKeepsOutcome(g) == [g EXCEPT !.isPlaying = TRUE, !.showAnimation = TRUE]
PlayStart(g) ==
    [g EXCEPT !.isPlaying = TRUE, !.showAnimation = TRUE,
              !.lastResult = Null, !.error = Null]
\* The rules of the game, which the client does not apply.
Beats(a, b) ==
    <<a, b>> \in {<<"rock", "scissors">>, <<"paper", "rock">>, <<"scissors", "paper">>}
PlayResolvedLocally(g, response) ==
    [g EXCEPT !.lastResult =
        Some([playerChoice |-> response.playerChoice,
              aiChoice |-> response.aiChoice,
              result |-> IF Beats(response.playerChoice, response.aiChoice)
                         THEN "win"
                         ELSE IF Beats(response.aiChoice, response.playerChoice)
                         THEN "lose" ELSE "draw"])]
PlayResolved(g, response) ==
    [g EXCEPT !.lastResult = Some([playerChoice |-> response.playerChoice,
                                   aiChoice |-> response.aiChoice,
                                   result |-> response.result])]
PlayCatchSilent(g) == g
PlayCatch(g) == [g EXCEPT !.error = Some(ConnectionFailed)]
PlayFinallyKeepsPlaying(g) == [g EXCEPT !.showAnimation = FALSE]
PlayFinally(g) == [g EXCEPT !.isPlaying = FALSE, !.showAnimation = FALSE]
\* The first await of handlePlay: the 800 ms timer.
PlaySkipTimer(task) == [task EXCEPT !.pc = "playing"]
PlayAwaitTimer(task) == [task EXCEPT !.pc = "delay"]
\* `await loadData()` after the result is stored.
PlayThenNothing(task) == Finished(task)
PlayThenLoad(task) == LoadDataStart(task)

(* loadData, piece by piece *)
LoadResolvedHistoryOnly(g, historyData, statsData) ==
    [g EXCEPT !.history = historyData]
LoadResolved(g, historyData, statsData) ==
    [g EXCEPT !.history = historyData, !.stats = Some(statsData)]
\* The catch only logs.
LoadCatchReports(g) == [g EXCEPT !.error = Some(ConnectionFailed)]
LoadCatch(g) == g
LoadFinally(g) == [g EXCEPT !.isLoading = FALSE]

\* Promise.all: fulfilled when both are, rejected as soon as one is.
AllFulfilled(task) == task.hist = "fulfilled" /\ task.stat = "fulfilled"
WaitsForBoth(task) == task.hist # "pending" /\ task.stat # "pending"
StatsDecides(task) == task.stat # "pending"
AllSettled(task) ==
    AllFulfilled(task) \/ task.hist = "rejected" \/ task.stat = "rejected"

\* What runs when loadData returns: the finally of handlePlay, if it called.
AfterLoad(task, g) == IF task.kind = "play" THEN PlayFinally(g) ELSE g

\* The view after loadData's await has settled.
LoadDone(task, g) ==
    AfterLoad(task,
        LoadFinally(IF AllFulfilled(task)
                    THEN LoadResolved(g, The(task.histData), The(task.statData))
                    ELSE LoadCatch(g)))

\* The response of getHistory, of getStats, is recorded in the activation.
HistoryArrives(task, o) ==
    [task EXCEPT !.hist = o.state,
                 !.histData = IF o.state = "fulfilled" THEN Some(o.value) ELSE Null]
StatsArrives(task, o) ==
    [task EXCEPT !.stat = o.state,
                 !.statData = IF o.state = "fulfilled" THEN Some(o.value) ELSE Null]

\* A response to one of loadData's requests has been recorded in `new`: if
\* that settles the Promise.all loadData is waiting for, the rest of loadData
\* runs on the view g (of a mounted GamePage); a response that arrives later
\* is dropped.
LoadSettlesLate(new) == AllSettled(new)
LoadSettles(new) == new.pc = "awaitAll" /\ AllSettled(new)
LoadStepView(new, g) ==
    IF LoadSettles(new) /\ new.live THEN LoadDone(new, g) ELSE g
LoadStepTask(new) ==
    IF LoadSettles(new) \/ new.pc = "done" THEN Finished(new) ELSE new
LoadStep(old, new) ==
    /\ Commit(LoadStepView(new, GP))
    /\ tasks' = Replace(tasks, old, LoadStepTask(new))

(* Numbers are IEEE 754 doubles.  A positive double is its significand, a   *)
(* sequence of Precision bits that starts with 1 (most significant first), *)
(* and the exponent e of its last bit: the value is significand * 2^e.     *)
(* Zero is the empty significand.                                          *)
Precision == 53

Zero == [m |-> <<>>, e |-> 0]

\* (The operators on bit sequences split their argument in halves, so that
\* they nest no deeper than the logarithm of its length.)
RECURSIVE Pow2(_)
Pow2(n) ==
    IF n = 0 THEN 1
    ELSE LET h == Pow2(n \div 2) IN h * h * (IF n % 2 = 1 THEN 2 ELSE 1)

\* The bits of the integer n, without leading zeros.
BitsOfInt(n) ==
    LET len == CHOOSE k \in 0..31 : n < Pow2(k) /\ (k = 0 \/ n >= Pow2(k - 1))
    IN  [i \in 1..len |-> (n \div Pow2(len - i)) % 2]

RECURSIVE IntOfBits(_)
IntOfBits(bits) ==
    IF Len(bits) = 0 THEN 0
    ELSE IF Len(bits) = 1 THEN bits[1]
    ELSE LET h == Len(bits) \div 2
         IN  IntOfBits(SubSeq(bits, 1, h)) * Pow2(Len(bits) - h)
                + IntOfBits(SubSeq(bits, h + 1, Len(bits)))

\* bits + 1: the last 0 becomes 1 and the 1s after it become 0.
IncBits(bits) ==
    LET zeros == { i \in 1..Len(bits) : bits[i] = 0 }
        last == IF zeros = {} THEN 0
                ELSE CHOOSE i \in zeros : \A j \in zeros : j <= i
    IN  SubSeq(bits, 1, last - 1) \o <<1>> \o [i \in 1..(Len(bits) - last) |-> 0]

\* Round to nearest, ties to even: m holds the Precision leading bits of the
\* exact result, roundBit the next one, sticky whether anything follows it.
RoundToNearestEven(m, e, roundBit, sticky) ==
    IF roundBit = 1 /\ (sticky \/ m[Len(m)] = 1)
    THEN LET up == IncBits(m)
         IN  IF Len(up) > Len(m)
             THEN [m |-> SubSeq(up, 1, Len(m)), e |-> e + 1]
             ELSE [m |-> up, e |-> e]
    ELSE [m |-> m, e |-> e]

\* 2^n modulo t.
RECURSIVE Pow2Mod(_, _)
Pow2Mod(n, t) ==
    IF n = 0 THEN 1 % t
    ELSE LET h == Pow2Mod(n \div 2, t)
         IN  (h * h * (IF n % 2 = 1 THEN 2 ELSE 1)) % t

\* The remainder that n binary digits of r / t leave, for 0 <= r < t, and
\* those digits (the first n after the point).
RemainderAfter(r, t, n) == (r * Pow2Mod(n, t)) % t
Digits(r, t, n) == [i \in 1..n |-> (2 * RemainderAfter(r, t, i - 1)) \div t]

\* How often b must be doubled to exceed a, and a to reach half of b.
RECURSIVE ShiftDown(_, _)
ShiftDown(a, b) == IF a < b THEN 0 ELSE 1 + ShiftDown(a, 2 * b)
RECURSIVE ShiftUp(_, _)
ShiftUp(a, b) == IF 2 * a >= b THEN 0 ELSE 1 + ShiftUp(2 * a, b)

\* a / b in double arithmetic, for integers a >= 0 and b > 0.
Divide(a, b) ==
    IF a = 0 THEN Zero
    ELSE LET down == ShiftDown(a, b)
             up == ShiftUp(a, b)
             r == a * Pow2(up)           \* r / t is in [1/2, 1)
             t == b * Pow2(down)
         IN  RoundToNearestEven(Digits(r, t, Precision),
                                down - up - Precision,
                                Digits(RemainderAfter(r, t, Precision), t, 1)[1],
                                RemainderAfter(r, t, Precision + 1) # 0)

\* bits * c + carry for a small integer c: what is carried out of the
\* Len(bits) low bits, and those bits.  Short pieces are computed as integers.
RECURSIVE CarryOut(_, _, _)
CarryOut(bits, c, carry) ==
    IF Len(bits) <= 16
    THEN (IntOfBits(bits) * c + carry) \div Pow2(Len(bits))
    ELSE LET h == Len(bits) \div 2
         IN  CarryOut(SubSeq(bits, 1, h), c,
                      CarryOut(SubSeq(bits, h + 1, Len(bits)), c, carry))

RECURSIVE LowBits(_, _, _)
LowBits(bits, c, carry) ==
    IF Len(bits) <= 16
    THEN LET v == IntOfBits(bits) * c + carry
         IN  [i \in 1..Len(bits) |-> (v \div Pow2(Len(bits) - i)) % 2]
    ELSE LET h == Len(bits) \div 2
         IN  LowBits(SubSeq(bits, 1, h), c,
                     CarryOut(SubSeq(bits, h + 1, Len(bits)), c, carry))
                \o LowBits(SubSeq(bits, h + 1, Len(bits)), c, carry)

TimesBits(bits, c) == BitsOfInt(CarryOut(bits, c, 0)) \o LowBits(bits, c, 0)

\* x * c in double arithmetic, for a double x >= 0 and an integer c > 0.
Times(x, c) ==
    IF x.m = <<>> THEN Zero
    ELSE LET p == TimesBits(x.m, c)
             extra == Len(p) - Precision
         IN  IF extra <= 0 THEN [m |-> p, e |-> x.e]
             ELSE RoundToNearestEven(
                      SubSeq(p, 1, Precision), x.e + extra, p[Precision + 1],
                      \E i \in (Precision + 2)..Len(p) : p[i] = 1)

\* Math.round of a double x >= 0: the nearest integer, halves go up.
MathRound(x) ==
    LET n == Len(x.m) + x.e       \* how many bits are left of the point
    IN  IF x.m = <<>> \/ n < 0 THEN 0
        ELSE IF n >= Len(x.m) THEN IntOfBits(x.m) * Pow2(x.e)
        ELSE IntOfBits(SubSeq(x.m, 1, n)) + x.m[n + 1]

\* num / den rounded to the nearest integer, halves up, in exact arithmetic.
Round(num, den) == (2 * num + den) \div (2 * den)

WinRateInverted(s) ==
    IF s # Null /\ The(s).wins > 0
    THEN Round(The(s).total * 100, The(s).wins)
    ELSE 0
WinRateOf(s) ==
    IF s # Null /\ The(s).total > 0
    THEN MathRound(Times(Divide(The(s).wins, The(s).total), 100))
    ELSE 0

winRate == WinRateOf(stats)

\* What the result text shows, if it is shown.
ResultText ==
    IF lastResult # Null /\ ~ showAnimation
    THEN Some(RESULT_LABELS[The(lastResult).result])
    ELSE Null

-----------------------------------------------------------------------------
(* Rendering App *)

\* LoginPage is (re)mounted or not shown: its useState initial values.
LoginPageFresh == name' = <<>> /\ loginError' = ""

\* App renders GamePage for n: the playerId initializer runs, then the mount
\* effect calls loadData.  ls and ts are the storage and the activations left
\* by the handler that caused the render.
MountGamePage(n, ls, ts) ==
    /\ BagCardinality(ts) < MaxTasks
    /\ localStorage' = StorageAfterId(ls, n)
    /\ uuids' = IF StoredId(ls, n) = Null THEN uuids + 1 ELSE uuids
    /\ Commit(GamePageState(Some(PlayerIdOf(ls, n))))
    /\ tasks' = ts (+) One(LoadDataStart(
                        NewTask("load", Null, Some(PlayerIdOf(ls, n)), Null)))
    /\ LoginPageFresh
    /\ event' = Quiet

\* GamePage is unmounted: its activations go on, their state updates are lost.
UnmountCancels(task) == Finished([task EXCEPT !.live = FALSE])
Unmount(task) == [task EXCEPT !.live = FALSE]
Unmounted(ts) ==
    LET after == { Unmount(task) : task \in BagToSet(ts) }
    IN  [new \in after |->
            BagCardinality([old \in { o \in BagToSet(ts) : Unmount(o) = new }
                                |-> ts[old]])]

-----------------------------------------------------------------------------
(* LoginPage *)

\* The input's onChange.
OnChange(v) ==
    /\ playerName = Null
    /\ name' = v
    /\ loginError' = ""
    /\ event' = Quiet
    /\ UNCHANGED <<localStorage, playerName, view, tasks, uuids>>

\* App.handleLogin
HandleLogin(n) ==
    /\ playerName' = Some(n)
    /\ MountGamePage(n, setItem(localStorage, CurrentPlayerKey, n), tasks)

\* The validation message for a trimmed name, '' when it passes.
ValidateOffByOne(trimmedName) ==
    IF Len(trimmedName) < MinNameLength THEN NameTooShort
    ELSE IF Len(trimmedName) >= MaxNameLength THEN NameTooLong
    ELSE ""
Validate(trimmedName) ==
    IF Len(trimmedName) < MinNameLength THEN NameTooShort
    ELSE IF Len(trimmedName) > MaxNameLength THEN NameTooLong
    ELSE ""

\* LoginPage.handleSubmit
HandleSubmit ==
    /\ playerName = Null
    /\ LET trimmedName == Trim(name)
       IN  IF Validate(trimmedName) # ""
           THEN /\ loginError' = Validate(trimmedName)
                /\ event' = Quiet
                /\ UNCHANGED <<localStorage, playerName, name, view, tasks, uuids>>
           ELSE HandleLogin(trimmedName)

-----------------------------------------------------------------------------
(* GamePage *)

\* The game view (choice buttons, logout button) is rendered.
GameViewShown == playerName # Null /\ ~ isLoading

\* App.handleLogout
StorageKeptAtLogout(ls) == ls
StorageAfterLogout(ls) == removeItem(ls, CurrentPlayerKey)

HandleLogout ==
    /\ GameViewShown
    /\ BagCardinality(tasks) <= MaxStale
    /\ localStorage' = StorageAfterLogout(localStorage)
    /\ playerName' = Null
    /\ Commit(NoGamePage)
    /\ tasks' = Unmounted(tasks)
    /\ LoginPageFresh
    /\ event' = Quiet
    /\ UNCHANGED uuids

\* GamePage.handlePlay up to its first await (the 800 ms timer).
HandlePlay(choice) ==
    /\ GameViewShown
    /\ IF Reentered
       THEN /\ event' = Ignored
            /\ UNCHANGED <<localStorage, playerName, name, loginError, view,
                           tasks, uuids>>
       ELSE /\ BagCardinality(tasks) < MaxTasks
            /\ Commit(PlayStart(GP))
            /\ tasks' = tasks (+)
                 One(PlayAwaitTimer(
                        NewTask("play", Some(choice), playerId, playerName)))
            /\ event' = Quiet
            /\ UNCHANGED <<localStorage, playerName, name, loginError, uuids>>

\* The timer fires: handlePlay calls playGame(playerId, playerName, choice);
\* PlayRequest(task) is in flight while the activation is at "playing".
DelayElapsed(task) ==
    /\ task.pc = "delay"
    /\ tasks' = Replace(tasks, task, [task EXCEPT !.pc = "playing"])
    /\ event' = Quiet
    /\ UNCHANGED <<localStorage, playerName, name, loginError, view, uuids>>

\* The playGame promise settles: the rest of handlePlay up to loadData's await.
PlaySettled(task, o) ==
    /\ task.pc = "playing"
    /\ IF o.state = "fulfilled"
       THEN /\ Commit(SetState(task, PlayResolved(GP, o.value)))
            /\ tasks' = Replace(tasks, task, PlayThenLoad(task))
            /\ event' = Quiet
       ELSE /\ Commit(SetState(task, PlayFinally(PlayCatch(GP))))
            /\ tasks' = Replace(tasks, task, Finished(task))
            /\ event' = Quiet
    /\ UNCHANGED <<localStorage, playerName, name, loginError, uuids>>

\* The getHistory promise settles.
HistorySettled(task, o) ==
    /\ task.hist = "pending"
    /\ LoadStep(task, HistoryArrives(task, o))
    /\ event' = Quiet
    /\ UNCHANGED <<localStorage, playerName, name, loginError, uuids>>

\* The getStats promise settles.
StatsSettled(task, o) ==
    /\ task.stat = "pending"
    /\ LoadStep(task, StatsArrives(task, o))
    /\ event' = Quiet
    /\ UNCHANGED <<localStorage, playerName, name, loginError, uuids>>

\* The page is loaded again: every activation is gone, App is constructed
\* from what localStorage holds.
Reload ==
    /\ playerName' = getItem(localStorage, CurrentPlayerKey)
    /\ IF getItem(localStorage, CurrentPlayerKey) = Null
       THEN /\ Commit(NoGamePage)
            /\ tasks' = EmptyBag
            /\ LoginPageFresh
            /\ event' = Quiet
            /\ UNCHANGED <<localStorage, uuids>>
       ELSE MountGamePage(The(getItem(localStorage, CurrentPlayerKey)),
                          localStorage, EmptyBag)

-----------------------------------------------------------------------------

\* A first visit: nothing persisted, App shows LoginPage.
Init ==
    /\ localStorage = <<>>
    /\ playerName = getItem(localStorage, CurrentPlayerKey)
    /\ name = <<>>
    /\ loginError = ""
    /\ playerId = NoGamePage.playerId
    /\ isPlaying = NoGamePage.isPlaying
    /\ lastResult = NoGamePage.lastResult
    /\ history = NoGamePage.history
    /\ stats = NoGamePage.stats
    /\ showAnimation = NoGamePage.showAnimation
    /\ error = NoGamePage.error
    /\ isLoading = NoGamePage.isLoading
    /\ tasks = EmptyBag
    /\ uuids = 0
    /\ event = Quiet

Next ==
    \/ \E v \in RawNames : OnChange(v)
    \/ HandleSubmit
    \/ HandleLogout
    \/ Reload
    \/ \E choice \in Choice : HandlePlay(choice)
    \/ \E task \in Tasks : DelayElapsed(task)
    \/ \E task \in Tasks, r \in PlayReplies(SamplePlays) :
          PlaySettled(task, playGame(r))
    \/ \E task \in Tasks, r \in HistoryReplies(SampleHistories) :
          HistorySettled(task, getHistory(r))
    \/ \E task \in Tasks, r \in StatsReplies(SampleStats) :
          StatsSettled(task, getStats(r))

Spec == Init /\ [][Next]_vars

(* One game session: the first player has just logged in on a first visit. *)
FirstPlayer == <<"a", "a">>

GameInit ==
    /\ localStorage = (CurrentPlayerKey :> FirstPlayer) @@
                      (PlayerIdKey(FirstPlayer) :> 1)
    /\ playerName = Some(FirstPlayer)
    /\ name = <<>>
    /\ loginError = ""
    /\ playerId = Some(1)
    /\ isPlaying = FALSE
    /\ lastResult = Null
    /\ history = <<>>
    /\ stats = Null
    /\ showAnimation = FALSE
    /\ error = Null
    /\ isLoading = TRUE
    /\ tasks = One(LoadDataStart(NewTask("load", Null, Some(1), Null)))
    /\ uuids = 1
    /\ event = Quiet

SessionNext(plays, statses) ==
    \/ \E choice \in Choice : HandlePlay(choice)
    \/ \E task \in Tasks : DelayElapsed(task)
    \/ \E task \in Tasks, r \in PlayReplies(plays) :
          PlaySettled(task, playGame(r))
    \/ \E task \in Tasks, r \in HistoryReplies(SampleHistories) :
          HistorySettled(task, getHistory(r))
    \/ \E task \in Tasks, r \in StatsReplies(statses) :
          StatsSettled(task, getStats(r))

\* Every play response the service can give.
GameNext == SessionNext(PlayResponse, SampleStats)
GameSpec == GameInit /\ [][GameNext]_vars

\* Every stats value the service can give, up to MaxTotal.
StatsNext == SessionNext(SamplePlays, PlayerStats)
StatsSpec == GameInit /\ [][StatsNext]_vars

\* The initial load of a session, for every number of wins out of every number
\* of games up to MaxGames.
RateStats ==
    { [wins |-> w, losses |-> t - w, draws |-> 0, total |-> t] :
        w \in 0..MaxGames, t \in 0..MaxGames } \cap [wins : Nat, losses : Nat, draws : Nat, total : Nat]
RateNext ==
    \/ \E task \in Tasks, r \in HistoryReplies(SampleHistories) :
          HistorySettled(task, getHistory(r))
    \/ \E task \in Tasks, r \in StatsReplies(RateStats \cup SampleStats) :
          StatsSettled(task, getStats(r))
RateSpec == GameInit /\ [][RateNext]_vars

\* Timers fire and requests settle; the player may do nothing.
GameFairness ==
    /\ WF_vars(\E task \in Tasks : DelayElapsed(task))
    /\ WF_vars(\E task \in Tasks, r \in PlayReplies(PlayResponse) :
                  PlaySettled(task, playGame(r)))
    /\ WF_vars(\E task \in Tasks, r \in HistoryReplies(SampleHistories) :
                  HistorySettled(task, getHistory(r)))
    /\ WF_vars(\E task \in Tasks, r \in StatsReplies(SampleStats) :
                  StatsSettled(task, getStats(r)))

GameFairSpec == GameSpec /\ GameFairness

-----------------------------------------------------------------------------
(* What is in flight. *)

\* A play attempt of the mounted GamePage that has not returned to Idle.
LiveAttempt(task) == task.live /\ task.kind = "play" /\ task.pc # "done"
\* The playGame requests in flight of the mounted GamePage.
LivePlayRequest(task) == task.live /\ task.pc = "playing"
HistoryPending(task) == task.hist = "pending"
StatsPending(task) == task.stat = "pending"
Attempt(task) == task.kind = "play" /\ task.pc \in {"delay", "playing"}

Playing == { task \in Tasks : task.pc = "playing" }
Refreshing == { task \in Tasks : task.pc = "awaitAll" }
\* playGame fails: a non-success status or a transport error.
RejectedPlay(task) == \E r \in Failures : PlaySettled(task, playGame(r))
FulfilledPlay(task, response) ==
    PlaySettled(task, playGame([status |-> "ok", body |-> response]))
RejectedRefresh(task) ==
    \E r \in Failures :
        HistorySettled(task, getHistory(r)) \/ StatsSettled(task, getStats(r))
MountStep == playerName' # Null /\ (HandleSubmit \/ Reload)

-----------------------------------------------------------------------------
(* C1: while a play attempt of the mounted GamePage has not returned to    *)
(* Idle, an invocation of handlePlay returns at its guard: it changes no   *)
(* view state and starts nothing, so the GamePage never has more than one  *)
(* attempt under way nor more than one playGame request in flight.         *)
C1_DoubleSubmissionGuard ==
    /\ [](CountWhere(tasks, LiveAttempt) <= 1)
    /\ [](CountWhere(tasks, LivePlayRequest) <= 1)
    /\ [](isPlaying <=> CountWhere(tasks, LiveAttempt) = 1)
    /\ [][(isPlaying /\ \E choice \in Choice : HandlePlay(choice))
            => (event' = Ignored /\ UNCHANGED <<view, tasks, localStorage>>)]_vars

\* The play action was invoked again during the pacing delay of an attempt.
C1_Witness ==
    /\ event = Ignored
    /\ showAnimation
    /\ \E task \in Tasks : LiveAttempt(task) /\ task.pc = "delay"

(* C2: a playGame promise that rejects leaves history and stats as they    *)
(* were when the attempt started (nothing writes them while the attempt    *)
(* waits for the timer or the response), issues no getHistory, getStats or *)
(* playGame request, and sets the connection-failure message.              *)
C2_FailedPlayKeepsData ==
    /\ [][\A task \in Playing : RejectedPlay(task) =>
            /\ history' = history
            /\ stats' = stats
            /\ CountWhere(tasks', HistoryPending) = CountWhere(tasks, HistoryPending)
            /\ CountWhere(tasks', StatsPending) = CountWhere(tasks, StatsPending)
            /\ CountWhere(tasks', Attempt) = CountWhere(tasks, Attempt) - 1
            /\ task.live => /\ error' = Some(ConnectionFailed)
                            /\ lastResult' = Null
                            /\ ~ isPlaying']_vars
    /\ [][((\E task \in Tasks : task.live /\ Attempt(task))
             /\ ~ (HandleLogout \/ Reload))
            => (history' = history /\ stats' = stats)]_vars

\* A play failed after history and stats had been loaded: they are still shown.
C2_Witness ==
    /\ error = Some(ConnectionFailed)
    /\ ~ isPlaying
    /\ stats # Null
    /\ history # <<>>

(* C3: a playGame promise that fulfils issues exactly one getHistory and   *)
(* one getStats request, in the step that has stored the response as       *)
(* lastResult; no other step of a play attempt issues either request, and  *)
(* no attempt has one in flight before its response has arrived.           *)
C3_OneRefreshPerPlay ==
    /\ [][\A task \in Playing, response \in PlayResponse :
            FulfilledPlay(task, response) =>
              /\ CountWhere(tasks', HistoryPending)
                    = CountWhere(tasks, HistoryPending) + 1
              /\ CountWhere(tasks', StatsPending)
                    = CountWhere(tasks, StatsPending) + 1
              /\ task.live => lastResult' = Some(response)]_vars
    /\ [][(\/ CountWhere(tasks', HistoryPending) > CountWhere(tasks, HistoryPending)
           \/ CountWhere(tasks', StatsPending) > CountWhere(tasks, StatsPending))
            => \/ MountStep
               \/ \E task \in Playing, response \in PlayResponse :
                     FulfilledPlay(task, response)]_vars
    /\ [](\A task \in Tasks :
            Attempt(task) => task.hist = "none" /\ task.stat = "none")

\* The refresh of a successful play is in flight, the result already stored.
C3_Witness ==
    /\ lastResult # Null
    /\ isPlaying
    /\ \E task \in Tasks :
          /\ LiveAttempt(task)
          /\ task.pc = "awaitAll"
          /\ task.hist = "pending"
          /\ task.stat = "pending"

(* C4: under GameFairness       (the timer fires, every request settles)  *)
(* every play attempt returns to Idle: whenever isPlaying holds, a state   *)
(* with isPlaying and showAnimation both false follows, whatever the       *)
(* outcomes of playGame and of the refresh.                                *)
C4_AlwaysBackToIdle == isPlaying ~> (~ isPlaying /\ ~ showAnimation)

\* Back at Idle after a successful play whose refresh failed (as the initial
\* load had): a result is shown and no stats are.
C4_Witness ==
    /\ playerName # Null
    /\ ~ isPlaying
    /\ ~ showAnimation
    /\ lastResult # Null
    /\ stats = Null
    /\ ~ isLoading

(* C5: a submission logs in exactly when the trimmed name has 2 to 20      *)
(* characters, and then App holds the trimmed name and the marker is       *)
(* written; any other submission sets a validation message, stays logged   *)
(* out and leaves localStorage as it was.  Nothing else logs in from       *)
(* LoggedOut.                                                              *)
IsTrimOf(t, s) ==
    \E i \in 1..(Len(s) + 1), j \in 0..Len(s) :
        /\ i <= j + 1
        /\ t = SubSeq(s, i, j)
        /\ \A k \in 1..(i - 1) : s[k] = " "
        /\ \A k \in (j + 1)..Len(s) : s[k] = " "
        /\ t = <<>> \/ (t[1] # " " /\ t[Len(t)] # " ")
Pieces(s) == { SubSeq(s, i, j) : i \in 1..(Len(s) + 1), j \in 0..Len(s) }

C5_LoginValidation ==
    [][/\ HandleSubmit =>
            \E t \in Pieces(name) :
              /\ IsTrimOf(t, name)
              /\ IF Len(t) >= 2 /\ Len(t) <= 20
                 THEN /\ playerName' = Some(t)
                      /\ getItem(localStorage', CurrentPlayerKey) = Some(t)
                 ELSE /\ playerName' = Null
                      /\ loginError' \in {NameTooShort, NameTooLong}
                      /\ localStorage' = localStorage
       /\ (playerName = Null /\ playerName' # Null) => HandleSubmit]_vars

\* Logged in under a 20-character name that was typed with spaces around it.
C5_Witness ==
    /\ playerName = Some(Rep(20, "b"))
    /\ getItem(localStorage, CurrentPlayerKey) = Some(Rep(20, "b"))

(* C6: the GamePage of a name always holds the identifier persisted for    *)
(* that name, and no step (a logout included) removes or changes a         *)
(* persisted identifier: every later session of the name gets the same one.*)
C6_IdentityIdempotent ==
    /\ [](playerName # Null =>
            /\ playerId # Null
            /\ playerId = StoredId(localStorage, The(playerName)))
    /\ [][\A k \in DOMAIN localStorage :
            k # CurrentPlayerKey =>
              k \in DOMAIN localStorage' /\ localStorage'[k] = localStorage[k]]_vars

\* The first player is back, with the first identifier, after a session of
\* another player that got the second one.
C6_Witness ==
    /\ playerName = Some(FirstPlayer)
    /\ playerId = Some(1)
    /\ StoredId(localStorage, Rep(20, "b")) = Some(2)

(* C7: when a request of the refresh that follows a successful play        *)
(* rejects, no failure message is set, the stored outcome stays, history   *)
(* and stats keep their values and the attempt is back at Idle.            *)
C7_RefreshFailureSwallowed ==
    [][\A task \in Refreshing :
         (LiveAttempt(task) /\ RejectedRefresh(task))
         => /\ error' = Null
            /\ lastResult # Null
            /\ lastResult' = lastResult
            /\ history' = history
            /\ stats' = stats
            /\ ~ isPlaying'
            /\ ~ showAnimation'
            /\ ResultText' = Some(RESULT_LABELS[The(lastResult).result])]_vars

\* A result is displayed although the refresh after it failed and the
\* history loaded earlier is the one still shown.
C7_Witness ==
    /\ ResultText # Null
    /\ error = Null
    /\ ~ isPlaying
    /\ \E task \in Tasks :
          /\ task.kind = "play"
          /\ task.live
          /\ task.pc = "done"
          /\ task.hist = "rejected"

(* C8: the client stores what the service answered: after a playGame       *)
(* promise fulfils, lastResult is the {playerChoice, aiChoice, result} of  *)
(* the response, whether or not it follows the rules of the game, and the  *)
(* result text is 'You Win!', 'You Lose!' or 'Draw!' by the stored result. *)
C8_ServerDecidesOutcome ==
    /\ [][\A task \in Playing, response \in PlayResponse :
            (task.live /\ FulfilledPlay(task, response)) =>
                /\ lastResult' = Some(response)
                /\ The(lastResult').playerChoice = response.playerChoice
                /\ The(lastResult').aiChoice = response.aiChoice
                /\ The(lastResult').result = response.result]_vars
    /\ [](ResultText # Null =>
            ResultText = Some(CASE The(lastResult).result = "win" -> "You Win!"
                                [] The(lastResult).result = "lose" -> "You Lose!"
                                [] The(lastResult).result = "draw" -> "Draw!"))
    /\ []((lastResult # Null /\ ~ isPlaying) => ResultText # Null)

\* 'You Win!' is displayed for rock against rock.
C8_Witness ==
    /\ lastResult = Some([playerChoice |-> "rock", aiChoice |-> "rock",
                          result |-> "win"])
    /\ ResultText = Some("You Win!")

(* C9: in every state of the game view winRate is between 0 and 100, and   *)
(* it is 0 when no stats are loaded or the stats have total = 0.           *)
C9_WinRateRange ==
    /\ winRate \in 0..100
    /\ (stats = Null \/ The(stats).total = 0) => winRate = 0

\* The stats of a player without games are shown, after a play.
C9_Witness ==
    /\ ~ isLoading
    /\ lastResult # Null
    /\ stats # Null
    /\ The(stats).total = 0
    /\ winRate = 0

(* C10: App's playerName always equals the persisted current-player marker *)
(* (null when there is none), so loading the page again, which reads the   *)
(* marker, leaves the session state as it was.                             *)
C10_SessionMirrorsMarker ==
    /\ [](playerName = getItem(localStorage, CurrentPlayerKey))
    /\ [][Reload => playerName' = playerName]_vars
    /\ [][HandleLogout =>
            (playerName' = Null /\ CurrentPlayerKey \notin DOMAIN localStorage')]_vars

\* Logged out with the marker cleared, after a session of the first player.
C10_Witness ==
    /\ playerName = Null
    /\ getItem(localStorage, CurrentPlayerKey) = Null
    /\ StoredId(localStorage, FirstPlayer) # Null

(* C11: whenever stats with total > 0 are loaded, winRate is               *)
(* 100 * wins / total rounded to the nearest integer (a half goes up, as   *)
(* Math.round does); for {wins: 3, losses: 1, draws: 1, total: 5} it is 60.*)
C11_WinRateRounded ==
    /\ (stats # Null /\ The(stats).total > 0)
          => winRate = Round(100 * The(stats).wins, The(stats).total)
    /\ stats = Some([wins |-> 3, losses |-> 1, draws |-> 1, total |-> 5])
          => winRate = 60

(* C12: a playGame request is issued only by the step in which the timer   *)
(* of an attempt fires; the step that accepts a play action starts that    *)
(* timer and issues no request, so no request of an attempt is in flight   *)
(* while its timer is pending.                                             *)
TimerPending(task) == task.pc = "delay"
PlayRequestInFlight(task) == task.pc = "playing"

C12_PacingDelayOrdering ==
    /\ [][CountWhere(tasks', PlayRequestInFlight)
              > CountWhere(tasks, PlayRequestInFlight)
            => \E task \in Tasks :
                  /\ TimerPending(task)
                  /\ DelayElapsed(task)
                  /\ CountWhere(tasks', TimerPending)
                        = CountWhere(tasks, TimerPending) - 1]_vars
    /\ [][(~ isPlaying /\ \E choice \in Choice : HandlePlay(choice))
            => /\ CountWhere(tasks', TimerPending)
                    = CountWhere(tasks, TimerPending) + 1
               /\ CountWhere(tasks', PlayRequestInFlight)
                    = CountWhere(tasks, PlayRequestInFlight)]_vars

\* The timer of the attempt has fired and its request is in flight, the
\* animation still showing.
C12_Witness ==
    /\ isPlaying
    /\ showAnimation
    /\ \E task \in Tasks : task.live /\ PlayRequestInFlight(task)
    /\ \A task \in Tasks : ~ TimerPending(task)

(* C13 as stated: once the loading indicator of a session has cleared,     *)
(* neither request of its initial load is still in flight.                 *)
InitialLoad(task) == task.live /\ task.kind = "load"

C13_LoadingUntilBothComplete ==
    (playerName # Null /\ ~ isLoading)
        => \A task \in Tasks :
              InitialLoad(task) => ~ HistoryPending(task) /\ ~ StatsPending(task)

(* C13 as amended: the loading indicator of a session is set exactly while *)
(* the Promise.all of its initial load is unsettled, that is until both    *)
(* requests have succeeded or one of them has failed; when it has cleared  *)
(* with a request still in flight, the other request is the one that       *)
(* failed.                                                                 *)
C13_LoadingUntilSettled ==
    /\ playerName # Null =>
          (isLoading <=> \E task \in Tasks :
                            InitialLoad(task) /\ task.pc = "awaitAll")
    /\ \A task \in Tasks :
          (InitialLoad(task) /\ task.pc = "awaitAll")
              => /\ task.hist # "rejected"
                 /\ task.stat # "rejected"
                 /\ HistoryPending(task) \/ StatsPending(task)
    /\ \A task \in Tasks :
          (InitialLoad(task) /\ task.pc = "done")
              => /\ HistoryPending(task) => task.stat = "rejected"
                 /\ StatsPending(task) => task.hist = "rejected"

\* The game view is shown (getHistory has failed) while getStats is in flight.
C13_Witness ==
    /\ GameViewShown
    /\ \E task \in Tasks :
          /\ InitialLoad(task)
          /\ task.hist = "rejected"
          /\ StatsPending(task)

(* C14: whenever both requests of a refresh are in flight, then for every  *)
(* pair of responses the view after both have arrived is the same whether  *)
(* the response of getHistory or that of getStats arrives first.           *)
HistoryFirst(task, oh, os, g) ==
    LET first == HistoryArrives(task, oh)
        second == StatsArrives(LoadStepTask(first), os)
    IN  LoadStepView(second, LoadStepView(first, g))
StatsFirst(task, oh, os, g) ==
    LET first == StatsArrives(task, os)
        second == HistoryArrives(LoadStepTask(first), oh)
    IN  LoadStepView(second, LoadStepView(first, g))
BothInFlight == { task \in Tasks : HistoryPending(task) /\ StatsPending(task) }

C14_ArrivalOrderIrrelevant ==
    \A task \in BothInFlight :
        \A rh \in HistoryReplies(SampleHistories), rs \in StatsReplies(SampleStats) :
            HistoryFirst(task, getHistory(rh), getStats(rs), GP)
                = StatsFirst(task, getHistory(rh), getStats(rs), GP)

\* Of the refresh after a play the stats have arrived and the history has not,
\* and the stats shown are still those of the refresh before.
C14_Witness ==
    /\ lastResult # Null
    /\ \E task \in Tasks :
          /\ LiveAttempt(task)
          /\ task.pc = "awaitAll"
          /\ HistoryPending(task)
          /\ task.statData # Null
          /\ task.statData # stats

(* C15: an attempt that has been accepted goes on whatever the player      *)
(* does in the application: its timer stays pending until it fires, its    *)
(* firing issues the playGame request with the playerId, playerName and    *)
(* choice the attempt was accepted with, the request stays in flight until *)
(* its response arrives, and a logout changes none of this; the response   *)
(* to an attempt of a GamePage that has been unmounted changes no view     *)
(* state.  (Loading the page again ends the script and with it every       *)
(* timer and request.)                                                     *)
AttemptsAt(ts, pc, request) ==
    BagCardinality([x \in { y \in BagToSet(ts) :
                              /\ y.kind = "play"
                              /\ y.pc = pc
                              /\ PlayRequest(y) = request } |-> ts[x]])
Requests == { PlayRequest(task) : task \in { x \in Tasks : Attempt(x) } }

C15_NoCancellation ==
    /\ [][\A choice \in Choice :
            (~ isPlaying /\ HandlePlay(choice))
            => LET request == [playerId |-> playerId, playerName |-> playerName,
                               choice |-> Some(choice)]
               IN  AttemptsAt(tasks', "delay", request)
                      = AttemptsAt(tasks, "delay", request) + 1]_vars
    /\ [][\A request \in IF tasks' = tasks THEN {} ELSE Requests :
            AttemptsAt(tasks', "delay", request) < AttemptsAt(tasks, "delay", request)
            => \/ Reload
               \/ /\ \E task \in Tasks : DelayElapsed(task)
                  /\ AttemptsAt(tasks', "delay", request)
                        = AttemptsAt(tasks, "delay", request) - 1
                  /\ AttemptsAt(tasks', "playing", request)
                        = AttemptsAt(tasks, "playing", request) + 1]_vars
    /\ [][\A request \in IF tasks' = tasks THEN {} ELSE Requests :
            AttemptsAt(tasks', "playing", request)
                < AttemptsAt(tasks, "playing", request)
            => \/ Reload
               \/ \E task \in Playing, r \in PlayReplies(SamplePlays) :
                     PlayRequest(task) = request /\ PlaySettled(task, playGame(r))]_vars
    /\ [][HandleLogout => \A task \in Tasks' : ~ task.live]_vars
    /\ [][\A task \in Playing :
            (~ task.live /\ \E r \in PlayReplies(SamplePlays) :
                                PlaySettled(task, playGame(r)))
            => UNCHANGED view]_vars

\* The request of an attempt of the first player is in flight in the session
\* of another player.
C15_Witness ==
    /\ playerName = Some(Rep(MaxNameLength, "b"))
    /\ \E task \in Playing :
          /\ ~ task.live
          /\ PlayRequest(task).playerName = Some(FirstPlayer)
          /\ PlayRequest(task).playerId = Some(1)
          /\ PlayRequest(task).choice # Null
          /\ PlayRequest(task).playerId # playerId

(* C16: while an attempt of the session waits for its timer or for the     *)
(* response of playGame, lastResult is null and error is null (and the     *)
(* result text is not shown): the outcome of the attempt before is gone    *)
(* from the step that accepts the play action on.                          *)
C16_AnimatingClearsOutcome ==
    \A task \in Tasks :
        (task.live /\ Attempt(task))
            => /\ lastResult = Null
               /\ error = Null
               /\ ResultText = Null
               /\ isPlaying
               /\ showAnimation

\* A new attempt waits for its timer; the attempt before it had stored a
\* result (a request of its refresh, which failed, is still in flight).
C16_Witness ==
    /\ lastResult = Null
    /\ error = Null
    /\ \E task \in Tasks : task.live /\ TimerPending(task)
    /\ \E task \in Tasks : task.live /\ task.kind = "play" /\ task.pc = "done"

(* C17: in every state of a game session lastResult and error are not both *)
(* set: a stored result comes without the connection-failure message and   *)
(* the message without a stored result.                                    *)
C17_ResultOrError == lastResult = Null \/ error = Null

\* A play has failed after a successful play whose refresh had failed (one
\* request of that refresh is still in flight): the message, and no result.
C17_Witness ==
    /\ error = Some(ConnectionFailed)
    /\ lastResult = Null
    /\ ~ isPlaying
    /\ \E task \in Tasks :
          /\ task.live
          /\ task.kind = "play"
          /\ task.pc = "done"
          /\ task.hist = "rejected" \/ task.stat = "rejected"

(* C18: a response to a request of a refresh of the session writes history *)
(* and stats both, with the two values of that refresh, when it is a       *)
(* success and the other request has succeeded already; otherwise (the     *)
(* other request is still in flight, or either has failed) it writes       *)
(* neither.  Nothing else writes history or stats during a session.        *)
LiveRefreshing == { task \in Refreshing : task.live }

C18_RefreshAtomic ==
    /\ [][\A task \in LiveRefreshing :
            \A r \in HistoryReplies(SampleHistories) :
              HistorySettled(task, getHistory(r))
              => IF r.status = "ok" /\ task.stat = "fulfilled"
                 THEN /\ history' = getHistory(r).value
                      /\ stats' = task.statData
                 ELSE history' = history /\ stats' = stats]_vars
    /\ [][\A task \in LiveRefreshing :
            \A r \in StatsReplies(SampleStats) :
              StatsSettled(task, getStats(r))
              => IF r.status = "ok" /\ task.hist = "fulfilled"
                 THEN /\ history' = The(task.histData)
                      /\ stats' = Some(getStats(r).value)
                 ELSE history' = history /\ stats' = stats]_vars
    /\ [][(history' # history \/ stats' # stats)
            => \/ MountStep
               \/ HandleLogout
               \/ Reload
               \/ \E task \in LiveRefreshing :
                     \/ \E r \in HistoryReplies(SampleHistories) :
                           HistorySettled(task, getHistory(r))
                     \/ \E r \in StatsReplies(SampleStats) :
                           StatsSettled(task, getStats(r))]_vars

\* The refresh after a play has failed on getStats with getHistory still in
\* flight: the stats loaded before are the ones shown.
C18_Witness ==
    /\ lastResult # Null
    /\ stats # Null
    /\ ~ isPlaying
    /\ \E task \in Tasks :
          /\ task.live
          /\ task.kind = "play"
          /\ task.pc = "done"
          /\ task.stat = "rejected"
          /\ HistoryPending(task)

(* C19 as stated: in a game session the requests in flight are those of at *)
(* most one refresh, and no attempt is under way (none can be started)     *)
(* while a request of the initial load is in flight.                       *)
RequestInFlight(task) == task.live /\ (HistoryPending(task) \/ StatsPending(task))

C19_OneRefreshInFlight ==
    /\ CountWhere(tasks, RequestInFlight) <= 1
    /\ (\E task \in Tasks : InitialLoad(task) /\ RequestInFlight(task))
          => ~ isPlaying

(* C19 as amended: in a game session at most one refresh is awaited at any *)
(* time: no play action is accepted while the initial load is awaited      *)
(* (isLoading) nor while the refresh after a play is awaited (isPlaying).  *)
(* A request of a refresh that has failed may still be in flight when a    *)
(* later refresh is, but its response changes no view state, so it never   *)
(* overwrites what a later refresh wrote.                                  *)
Awaited(task) == task.live /\ task.pc = "awaitAll"
Lingering(task) == task.live /\ task.pc = "done"

C19_OneRefreshAwaited ==
    /\ [](CountWhere(tasks, Awaited) <= 1)
    /\ [](\A task \in Tasks :
            Awaited(task) => IF task.kind = "load"
                             THEN isLoading /\ ~ isPlaying /\ ~ GameViewShown
                             ELSE isPlaying)
    /\ [][(isLoading \/ isPlaying)
            => \A choice \in Choice :
                  HandlePlay(choice) => UNCHANGED <<view, tasks>>]_vars
    /\ [](\A task \in Tasks :
            Lingering(task) => task.hist = "rejected" \/ task.stat = "rejected")
    /\ [][\A task \in Tasks :
            (Lingering(task)
               /\ \/ \E r \in HistoryReplies(SampleHistories) :
                       HistorySettled(task, getHistory(r))
                  \/ \E r \in StatsReplies(SampleStats) :
                       StatsSettled(task, getStats(r)))
            => UNCHANGED view]_vars

\* A request of the initial load, which failed, is still in flight while the
\* refresh after a play is awaited.
C19_Witness ==
    /\ \E task \in Tasks :
          Lingering(task) /\ task.kind = "load" /\ RequestInFlight(task)
    /\ \E task \in Tasks :
          Awaited(task) /\ task.kind = "play" /\ RequestInFlight(task)
    /\ lastResult # Null

(* C20: the activations of a game session that has been logged out belong  *)
(* to no later session (a logout leaves none live, a login starts with the *)
(* new initial load as the only live one), the arrival of a response for   *)
(* such an activation changes no view state (lastResult, error, history,   *)
(* stats, isPlaying included), and every new session starts with           *)
(* lastResult = null, error = null, an empty history, no stats and         *)
(* isPlaying = false.                                                      *)
Stale == { task \in Tasks : ~ task.live }
StaleResponse(task) ==
    \/ \E r \in PlayReplies(SamplePlays) : PlaySettled(task, playGame(r))
    \/ \E r \in HistoryReplies(SampleHistories) : HistorySettled(task, getHistory(r))
    \/ \E r \in StatsReplies(SampleStats) : StatsSettled(task, getStats(r))
Live(task) == task.live

C20_SessionIsolation ==
    /\ [][view' # view => ~ \E task \in Stale : StaleResponse(task)]_vars
    /\ [](playerName = Null => \A task \in Tasks : ~ task.live)
    /\ [](\A task \in Tasks : task.live => task.playerId = playerId)
    /\ [][MountStep
            => /\ lastResult' = Null
               /\ error' = Null
               /\ history' = <<>>
               /\ stats' = Null
               /\ ~ isPlaying'
               /\ ~ showAnimation'
               /\ isLoading'
               /\ CountWhere(tasks', Live) = 1
               /\ \E task \in Tasks' : InitialLoad(task) /\ task.pc = "awaitAll"]_vars

\* The response to a play of the first player's session has arrived (its
\* refresh is in flight) during the session of another player, which shows
\* no result.
C20_Witness ==
    /\ playerName = Some(Rep(MaxNameLength, "b"))
    /\ lastResult = Null
    /\ error = Null
    /\ ~ isPlaying
    /\ \E task \in Stale :
          /\ task.kind = "play"
          /\ task.pc = "awaitAll"
          /\ task.playerId = Some(1)
          /\ task.playerId # playerId

====
